---------------------------- MODULE Spec2Model ----------------------------
(***************************************************************************)
(* Model of the caption synchronization code of the database cheatsheet    *)
(* page: the AudioPlayer object (audio module), its VTT loader with the    *)
(* fetch -> XMLHttpRequest fallback chain, the VTT parser, the timestamp   *)
(* parser and the time-based cue lookup.                                   *)
(*                                                                         *)
(* Representation choices:                                                 *)
(*   - JavaScript strings are TLA+ strings; split/trim/includes/parseInt/  *)
(*     parseFloat are operators that compute what the built-ins compute on *)
(*     the modelled alphabet (digits, ':', '.', '-', '>', blanks, plain    *)
(*     letters; no hex prefix, exponent or "Infinity" literal occurs).     *)
(*   - A JavaScript number holding a time is a record [nan, v]: v is the   *)
(*     value in integer milliseconds, nan marks NaN.  Fraction digits      *)
(*     beyond the third are below the resolution of the model.             *)
(*   - player.currentTime is a plain integer number of milliseconds.       *)
(***************************************************************************)
EXTENDS Integers, Sequences, FiniteSets, TLC

VARIABLES
    dom,            \* which elements the page holds: [player, display, track]
    phase,          \* "constructed" | "inited"            (AudioPlayer.init ran)
    listeners,      \* names of the event listeners registered so far
    timerPending,   \* the setTimeout(..., 100) of setupSubtitles is outstanding
    track,          \* this.track: "null" | "set"
    nativeState,    \* the browser's text track: "pending" | "loaded" | "error"
    trackCues,      \* the cues the browser's own parser yields for the track
    manualCues,     \* this.manualCues
    currentTime,    \* player.currentTime (ms)
    paused,         \* player.paused
    subtitleText,   \* subtitleDisplay.textContent
    subtitleActive, \* subtitleDisplay.classList contains 'active'
    resource,       \* the text at assets/audio/Transcript.vtt
    fetchState,     \* "idle" | "pending" | "reading" | "ok" | "failed"
    xhrState,       \* "unsent" | "pending" | "ok" | "failed"
    calls,          \* how often fetch / xhr / parseVTT / the failure message ran
    last,           \* the last handler run: [event, called, cue, status]
    raised,         \* a handler threw (uncaught TypeError)
    arg,            \* input of a function applied on its own
    ret,            \* its result
    navPhase,       \* "constructed" | "inited"            (Navigation.init ran)
    mobileMenuOpen, \* Navigation.mobileMenuOpen
    bodyMenuClass,  \* document.body.classList contains 'mobile-menu-open'
    bodyOverflow,   \* document.body.style.overflow: "" | "hidden"
    active,         \* the sections, nav buttons and other elements with class 'active'
    innerWidth,     \* window.innerWidth
    locationHash,   \* window.location.hash without its '#'
    showClass,      \* the siblings of toggle buttons with class 'show'
    buttonText,     \* textContent of each toggle button
    buttonActive,   \* the toggle buttons with class 'active'
    mathTimers,     \* solutions with a setTimeout(renderMath, 50) outstanding
    debWait,        \* the wait given to Utils.debounce (ticks)
    now,            \* the clock (ticks)
    timers,         \* the browser's outstanding timers: [id, due, args]
    timeout,        \* the closure variable timeout: a timer id, 0 for undefined
    callLog,        \* the calls of the debounced function so far: [at, args]
    funcLog         \* the invocations of func so far: [at, args, after]

vars == <<dom, phase, listeners, timerPending, track, nativeState,
          trackCues, manualCues, currentTime, paused, subtitleText,
          subtitleActive, resource, fetchState, xhrState, calls, last, raised,
          arg, ret,
          navPhase, mobileMenuOpen, bodyMenuClass, bodyOverflow, active,
          innerWidth, locationHash,
          showClass, buttonText, buttonActive, mathTimers,
          debWait, now, timers, timeout, callLog, funcLog>>

(***************************************************************************)
(* Bounds of the model.                                                    *)
(***************************************************************************)
\* playback positions are 0 .. MaxTime seconds
MaxTime == 4
\* a drawn VTT text has at most MaxLines lines
MaxLines == 4
\* a drawn cue list has at most MaxCues cues
MaxCues == 2
\* hour, minute and second fields of a drawn timestamp are 0 .. MaxField
MaxField == 11
\* updateSubtitleByTime is called directly at most MaxCalls times in a row
MaxCalls == 2
\* the clock runs from 0 to MaxNow ticks
MaxNow == 4
\* the wait given to debounce is 0 .. MaxWait ticks
MaxWait == 2
\* the debounced function is called at most MaxBurst times
MaxBurst == 3

(***************************************************************************)
(* JavaScript string built-ins.                                            *)
(***************************************************************************)
CharAt(s, i) == SubSeq(s, i, i)

\* String.prototype.indexOf, 1-based; 0 when pat does not occur
IndexOf(s, pat) ==
    LET hits == {i \in 1..(Len(s) - Len(pat) + 1) : SubSeq(s, i, i + Len(pat) - 1) = pat}
    IN  IF hits = {} THEN 0 ELSE CHOOSE i \in hits : \A j \in hits : i <= j

Includes(s, pat) == IndexOf(s, pat) > 0

RECURSIVE Split(_, _)
Split(s, sep) ==
    LET k == IndexOf(s, sep)
    IN  IF k = 0 THEN <<s>>
        ELSE <<SubSeq(s, 1, k - 1)>> \o Split(SubSeq(s, k + Len(sep), Len(s)), sep)

IsSpace(c) == c \in {" ", "\t", "\r", "\n"}

Trim(s) ==
    LET keep == {i \in 1..Len(s) : ~IsSpace(CharAt(s, i))}
    IN  IF keep = {} THEN ""
        ELSE SubSeq(s, CHOOSE i \in keep : \A j \in keep : i <= j,
                       CHOOSE i \in keep : \A j \in keep : i >= j)

TrimStart(s) ==
    LET keep == {i \in 1..Len(s) : ~IsSpace(CharAt(s, i))}
    IN  IF keep = {} THEN "" ELSE SubSeq(s, CHOOSE i \in keep : \A j \in keep : i <= j, Len(s))

(***************************************************************************)
(* JavaScript numbers and the numeric parsers.                             *)
(***************************************************************************)
NaN == [nan |-> TRUE, v |-> 0]
Num(n) == [nan |-> FALSE, v |-> n]

NumAdd(a, b) == IF a.nan \/ b.nan THEN NaN ELSE Num(a.v + b.v)
NumMul(a, k) == IF a.nan THEN NaN ELSE Num(a.v * k)

IsDigit(c) == c \in {"0", "1", "2", "3", "4", "5", "6", "7", "8", "9"}
DigitVal(c) == IndexOf("0123456789", c) - 1

\* the number of leading decimal digits of s
DigitPrefixLen(s) ==
    CHOOSE k \in 0..Len(s) :
        /\ \A i \in 1..k : IsDigit(CharAt(s, i))
        /\ (k < Len(s) => ~IsDigit(CharAt(s, k + 1)))

RECURSIVE DigitsValue(_)
DigitsValue(d) ==
    IF d = "" THEN 0
    ELSE DigitsValue(SubSeq(d, 1, Len(d) - 1)) * 10 + DigitVal(CharAt(d, Len(d)))

\* the integer a decimal literal prefix denotes: leading blanks, an optional
\* sign, then digits; NaN when no digit follows.  In units of 1.
SignedPrefix(str) ==
    LET s    == TrimStart(str)
        neg  == Len(s) > 0 /\ CharAt(s, 1) = "-"
        body == IF Len(s) > 0 /\ CharAt(s, 1) \in {"-", "+"} THEN SubSeq(s, 2, Len(s)) ELSE s
        k    == DigitPrefixLen(body)
        n    == DigitsValue(SubSeq(body, 1, k))
    IN  IF k = 0 THEN NaN ELSE Num(IF neg THEN 0 - n ELSE n)

\* parseInt(str): an integer count
ParseInt(str) == SignedPrefix(str)

\* parseFloat(str) for a str that holds no '.', in milliseconds
ParseFloatWhole(str) == NumMul(SignedPrefix(str), 1000)

\* faulty variant: the fraction digits read as a count of milliseconds
ParseFloatFraction_AsInteger(frac) ==
    Num(DigitsValue(SubSeq(frac, 1, DigitPrefixLen(frac))))

\* parseFloat('0.' + frac), in milliseconds
ParseFloatFraction(frac) ==
    LET d == SubSeq(frac, 1, DigitPrefixLen(frac)) \o "000"
    IN  Num(DigitsValue(SubSeq(d, 1, 3)))

\* AudioPlayer.parseTimestamp
ParseTimestamp(timestamp) ==
    LET parts   == Split(timestamp, ":")
        seconds == Split(parts[Len(parts)], ".")
        whole   == IF Len(parts) = 3
                   THEN NumAdd(NumAdd(NumMul(ParseInt(parts[1]), 3600 * 1000),
                                      NumMul(ParseInt(parts[2]), 60 * 1000)),
                               ParseFloatWhole(seconds[1]))
                   ELSE IF Len(parts) = 2
                   THEN NumAdd(NumMul(ParseInt(parts[1]), 60 * 1000),
                               ParseFloatWhole(seconds[1]))
                   ELSE ParseFloatWhole(seconds[1])
    IN  IF Len(seconds) > 1
        THEN NumAdd(whole, ParseFloatFraction(seconds[2]))
        ELSE whole

\* faulty variant: the text lines are appended without the separating space
RECURSIVE CueText_NoSeparator(_, _, _)
CueText_NoSeparator(lines, i, text) ==
    IF i <= Len(lines) /\ Trim(lines[i]) # ""
    THEN CueText_NoSeparator(lines, i + 1, text \o Trim(lines[i]))
    ELSE [text |-> text, i |-> i]

\* AudioPlayer.parseVTT, the inner while loop collecting a cue's text:
\* the text gathered and the index of the line that stopped the loop
RECURSIVE CueText(_, _, _)
CueText(lines, i, text) ==
    IF i <= Len(lines) /\ Trim(lines[i]) # ""
    THEN CueText(lines, i + 1, (IF text # "" THEN text \o " " ELSE text) \o Trim(lines[i]))
    ELSE [text |-> text, i |-> i]

\* AudioPlayer.parseVTT, the first while loop: the index of the first line that
\* contains '-->', Len(lines) + 1 when there is none
RECURSIVE SkipHeader(_, _)
SkipHeader(lines, i) ==
    IF i <= Len(lines) /\ ~Includes(lines[i], "-->") THEN SkipHeader(lines, i + 1) ELSE i

\* faulty variant: a timing line with an unreadable time is dropped
RECURSIVE ParseCues_SkipMalformed(_, _, _)
ParseCues_SkipMalformed(lines, i, cues) ==
    IF i > Len(lines) THEN cues
    ELSE LET line == Trim(lines[i]) IN
         IF Includes(line, "-->")
         THEN LET times == Split(line, "-->")
                  body  == CueText(lines, i + 1, "")
                  cue   == [startTime |-> ParseTimestamp(Trim(times[1])),
                            endTime   |-> ParseTimestamp(Trim(times[2])),
                            text      |-> body.text]
              IN  ParseCues_SkipMalformed(lines, body.i + 1,
                      IF cue.startTime.nan \/ cue.endTime.nan
                      THEN cues ELSE Append(cues, cue))
         ELSE ParseCues_SkipMalformed(lines, i + 1, cues)

\* AudioPlayer.parseVTT, the second while loop, pushing onto cues
RECURSIVE ParseCues(_, _, _)
ParseCues(lines, i, cues) ==
    IF i > Len(lines) THEN cues
    ELSE LET line == Trim(lines[i]) IN
         IF Includes(line, "-->")
         THEN LET times == Split(line, "-->")
                  body  == CueText(lines, i + 1, "")
                  cue   == [startTime |-> ParseTimestamp(Trim(times[1])),
                            endTime   |-> ParseTimestamp(Trim(times[2])),
                            text      |-> body.text]
              IN  ParseCues(lines, body.i + 1, Append(cues, cue))
         ELSE ParseCues(lines, i + 1, cues)

\* AudioPlayer.parseVTT(vttText) run with this.manualCues = cues: the new
\* value of this.manualCues
ParseVTT(cues, vttText) ==
    LET lines == Split(vttText, "\n")
    IN  ParseCues(lines, SkipHeader(lines, 1), cues)

(***************************************************************************)
(* Cue lookup.                                                             *)
(***************************************************************************)
\* currentTime >= cue.startTime && currentTime <= cue.endTime
\* (a comparison with NaN is false)
CueContains(cue, t) ==
    /\ ~cue.startTime.nan /\ t >= cue.startTime.v
    /\ ~cue.endTime.nan /\ t <= cue.endTime.v

\* faulty variant: the loop without its break: the last match wins
RECURSIVE ScanCues_NoBreak(_, _, _)
ScanCues_NoBreak(cues, t, i) ==
    IF i > Len(cues) THEN 0
    ELSE LET later == ScanCues_NoBreak(cues, t, i + 1)
         IN  IF later # 0 THEN later
             ELSE IF CueContains(cues[i], t) THEN i ELSE 0

\* the for loop with break of updateSubtitleByTime: the index of the cue
\* found, 0 for currentCue = null
RECURSIVE ScanCues(_, _, _)
ScanCues(cues, t, i) ==
    IF i > Len(cues) THEN 0
    ELSE IF CueContains(cues[i], t) THEN i
    ELSE ScanCues(cues, t, i + 1)

\* this.track.cues: empty until the browser has loaded the track
NativeCues == IF nativeState = "loaded" THEN trackCues ELSE <<>>

\* the list updateSubtitleByTime scans: the native cues when there are any,
\* else the manually parsed ones
SelectedCues ==
    IF track = "set" /\ Len(NativeCues) > 0 THEN NativeCues ELSE manualCues

\* this.track.activeCues as the browser maintains it: the indices of the
\* track's cues that are current at position t, in track order
ActiveCues(t) ==
    LET act == {i \in 1..Len(NativeCues) :
                   NativeCues[i].startTime.v <= t /\ t < NativeCues[i].endTime.v}
    IN  IF act = {} THEN 0 ELSE CHOOSE i \in act : \A j \in act : i <= j

(***************************************************************************)
(* Texts written to the display surface.                                   *)
(***************************************************************************)
\* the textContent the page ships with
InitialText == "<initial>"
MsgTrackFailed == "Failed to load subtitles. Please check the VTT file."
MsgEnded == "Audio finished. Click play to listen again."
MsgReady == "Press play to start the audio guide..."
MsgLoading == "Loading subtitles..."
Ellipsis == "..."
MsgXhrStatus == "Unable to load subtitles. Please use a local server or try Safari."
MsgXhrError == "Subtitles unavailable in this browser. Try Safari or use a local server."

(***************************************************************************)
(* The environment of a run: page, resource, browser track.                *)
(***************************************************************************)
Cue(s, e, text) == [startTime |-> Num(s), endTime |-> Num(e), text |-> text]

\* resources served at the transcript URL
BodyPool ==
    { "",
      "WEBVTT\n\n00:01.000 --> 00:02.000\nHello\nworld\n\n00:02.000 --> 00:03.000\nBye" }

\* what the browser's own track loader may hold after 'load'
NativePool ==
    { <<>>,
      <<Cue(1000, 2000, "Hello\nworld"), Cue(2000, 3000, "Bye")>> }

\* playback positions, in ms
Times == {1000 * n : n \in 0..MaxTime}

\* HTTP statuses a transport may answer with (0: local file)
XhrStatuses == {0, 200, 204, 404}
FetchStatuses == {200, 204, 404, 500}

\* Response.ok
ResponseOk(status) == status >= 200 /\ status <= 299

\* status: the HTTP status the handler was given, -1 when it was given none
NoCall == [event |-> "none", called |-> "none", cue |-> 0, status |-> -1]
Ran(event) == [event |-> event, called |-> "none", cue |-> 0, status |-> -1]
RanWithStatus(event, status) == [Ran(event) EXCEPT !.status = status]

NoCalls == [fetch |-> 0, xhr |-> 0, parse |-> 0, failMsg |-> 0]

envVars == <<dom, resource, trackCues>>
unitVars == <<arg, ret>>
menuVars == <<mobileMenuOpen, bodyMenuClass, bodyOverflow>>
navVars == <<navPhase, menuVars, active, innerWidth, locationHash>>
exerciseVars == <<showClass, buttonText, buttonActive, mathTimers>>
debounceVars == <<debWait, now, timers, timeout, callLog, funcLog>>
pageVars == <<navVars, exerciseVars, debounceVars>>
displayVars == <<subtitleText, subtitleActive>>
playerVars == <<currentTime, paused>>
trackVars == <<track, nativeState, listeners, timerPending>>
loadVars == <<manualCues, fetchState, xhrState, calls>>

\* the AudioPlayer object literal, before init()
\* the elements of class 'toggle-solution-btn' and their nextElementSibling:
\* a '.solution' element, an element of another class, or none ("null")
ToggleButtons == {"tb_first", "tb_second", "tb_other", "tb_last"}
Solutions == {"sol_first", "sol_second"}
NextElementSibling == [b \in ToggleButtons |->
                          CASE b = "tb_first"  -> "sol_first"
                            [] b = "tb_second" -> "sol_second"
                            [] b = "tb_other"  -> "para"
                            [] OTHER           -> "null"]

TextShow == "Show Solution"
TextHide == "Hide Solution"

\* the exercises of a page nothing was clicked on
ExercisesIdle ==
    /\ showClass = {}
    /\ buttonText = [b \in ToggleButtons |-> TextShow]
    /\ buttonActive = {}
    /\ mathTimers = {}

\* no debounced function has been called
DebounceIdle ==
    /\ debWait = 0
    /\ now = 0
    /\ timers = {}
    /\ timeout = 0
    /\ callLog = <<>>
    /\ funcLog = <<>>

\* the innerWidth up to which showSection closes the mobile menu
MobileMaxWidth == 768

\* the Navigation object and the page before Navigation.init: mobileMenuOpen
\* is undefined, which every use (!, &&) treats as false
NavConstructed ==
    /\ navPhase = "constructed"
    /\ mobileMenuOpen = FALSE
    /\ bodyMenuClass = FALSE
    /\ bodyOverflow = ""
    /\ active = {}
    /\ innerWidth = MobileMaxWidth + 1
    /\ locationHash = ""

Constructed ==
    /\ phase = "constructed"
    /\ listeners = {}
    /\ timerPending = FALSE
    /\ track = "null"
    /\ manualCues = <<>>
    /\ fetchState = "idle"
    /\ xhrState = "unsent"
    /\ calls = NoCalls
    /\ last = NoCall
    /\ raised = FALSE

Init ==
    /\ dom \in [player : BOOLEAN, display : BOOLEAN, track : BOOLEAN]
    /\ (~dom.player => ~dom.track)
    /\ resource \in BodyPool
    /\ trackCues \in NativePool
    /\ nativeState = "pending"
    /\ currentTime = 0
    /\ paused = TRUE
    /\ subtitleText = InitialText
    /\ subtitleActive = FALSE
    /\ Constructed
    /\ NavConstructed
    /\ ExercisesIdle
    /\ DebounceIdle
    /\ arg = "" /\ ret = ""

(***************************************************************************)
(* Initialization.                                                         *)
(***************************************************************************)
\* setupSubtitles(): the listeners it registers
SetupSubtitlesListeners ==
    IF dom.track THEN {"track.load", "track.error", "timeupdate"} ELSE {}

\* setupEventListeners()
SetupEventListeners == {"ended", "pause", "play"}

\* faulty variant: the fetch and the XHR are started together
LoadVTTManually_Race ==
    /\ fetchState' = "pending"
    /\ xhrState' = "pending"
    /\ calls' = [calls EXCEPT !.fetch = @ + 1, !.xhr = @ + 1]
    /\ UNCHANGED manualCues

\* loadVTTManually(): the fetch is started
LoadVTTManually ==
    /\ fetchState' = "pending"
    /\ calls' = [calls EXCEPT !.fetch = @ + 1]
    /\ UNCHANGED <<manualCues, xhrState>>

\* AudioPlayer.init()
AudioInit ==
    /\ phase = "constructed"
    /\ phase' = "inited"
    /\ last' = Ran("init")
    /\ IF ~dom.player \/ ~dom.display
       THEN UNCHANGED <<listeners, timerPending, loadVars>>
       ELSE /\ listeners' = listeners \cup SetupSubtitlesListeners \cup SetupEventListeners
            /\ timerPending' = dom.track
            /\ LoadVTTManually
    /\ UNCHANGED <<envVars, unitVars, pageVars, displayVars, playerVars, track,
                   nativeState, raised>>

(***************************************************************************)
(* The load chain.                                                         *)
(***************************************************************************)
\* loadVTTWithXHR(): a request is created and sent
LoadVTTWithXHR ==
    /\ xhrState' = "pending"
    /\ calls' = [calls EXCEPT !.xhr = @ + 1]

\* faulty variant: the .catch handler only logs
FetchCatch_LogOnly ==
    /\ fetchState' = "failed"
    /\ UNCHANGED <<manualCues, xhrState, calls>>

\* the .catch handler of loadVTTManually
FetchCatch ==
    /\ fetchState' = "failed"
    /\ LoadVTTWithXHR
    /\ UNCHANGED manualCues

\* faulty variant: the body is parsed and the fallback is started all the same
FetchThenText_AndFallback ==
    /\ fetchState' = "ok"
    /\ manualCues' = ParseVTT(manualCues, resource)
    /\ calls' = [calls EXCEPT !.parse = @ + 1, !.xhr = @ + 1]
    /\ xhrState' = "pending"

\* the second .then handler of loadVTTManually
FetchThenText ==
    /\ fetchState' = "ok"
    /\ manualCues' = ParseVTT(manualCues, resource)
    /\ calls' = [calls EXCEPT !.parse = @ + 1]
    /\ UNCHANGED xhrState

\* the first .then handler: the response arrived with a status
FetchThenResponse(status) ==
    IF ~ResponseOk(status)
    THEN FetchCatch
    ELSE /\ fetchState' = "reading"
         /\ UNCHANGED <<manualCues, xhrState, calls>>

loadFrame == <<envVars, unitVars, pageVars, displayVars, playerVars, trackVars, phase, raised>>

\* fetch resolves with a response
FetchRespond ==
    /\ fetchState = "pending"
    /\ \E status \in FetchStatuses :
          /\ FetchThenResponse(status)
          /\ last' = RanWithStatus("fetch.response", status)
    /\ UNCHANGED loadFrame

\* fetch rejects (network error, blocked by the browser)
FetchReject ==
    /\ fetchState = "pending"
    /\ FetchCatch
    /\ last' = Ran("fetch.reject")
    /\ UNCHANGED loadFrame

\* response.text() resolves with the body
FetchBody ==
    /\ fetchState = "reading"
    /\ FetchThenText
    /\ last' = Ran("fetch.body")
    /\ UNCHANGED loadFrame

\* response.text() rejects (the body could not be read)
FetchBodyReject ==
    /\ fetchState = "reading"
    /\ FetchCatch
    /\ last' = Ran("fetch.bodyreject")
    /\ UNCHANGED loadFrame

\* faulty variant: only status 200 counts as success
XhrOnLoad_Only200(status) ==
    IF status = 200
    THEN /\ xhrState' = "ok"
         /\ manualCues' = ParseVTT(manualCues, resource)
         /\ calls' = [calls EXCEPT !.parse = @ + 1]
         /\ UNCHANGED displayVars
    ELSE /\ xhrState' = "failed"
         /\ subtitleText' = MsgXhrStatus
         /\ calls' = [calls EXCEPT !.failMsg = @ + 1]
         /\ UNCHANGED <<manualCues, subtitleActive>>

\* xhr.onload
XhrOnLoad(status) ==
    IF status = 200 \/ status = 0
    THEN /\ xhrState' = "ok"
         /\ manualCues' = ParseVTT(manualCues, resource)
         /\ calls' = [calls EXCEPT !.parse = @ + 1]
         /\ UNCHANGED displayVars
    ELSE /\ xhrState' = "failed"
         /\ subtitleText' = MsgXhrStatus
         /\ calls' = [calls EXCEPT !.failMsg = @ + 1]
         /\ UNCHANGED <<manualCues, subtitleActive>>

\* faulty variant: a network error starts the request again
XhrOnError_Retry ==
    /\ LoadVTTWithXHR
    /\ UNCHANGED <<manualCues, displayVars>>

\* xhr.onerror
XhrOnError ==
    /\ xhrState' = "failed"
    /\ subtitleText' = MsgXhrError
    /\ calls' = [calls EXCEPT !.failMsg = @ + 1]
    /\ UNCHANGED <<manualCues, subtitleActive>>

xhrFrame == <<envVars, unitVars, pageVars, playerVars, trackVars, phase, raised, fetchState>>

\* the request completes with a status
XhrLoad ==
    /\ xhrState = "pending"
    /\ \E status \in XhrStatuses :
          /\ XhrOnLoad(status)
          /\ last' = RanWithStatus("xhr.load", status)
    /\ UNCHANGED xhrFrame

\* the request fails at the network level
XhrError ==
    /\ xhrState = "pending"
    /\ XhrOnError
    /\ last' = Ran("xhr.error")
    /\ UNCHANGED xhrFrame

(***************************************************************************)
(* The browser's text track.                                               *)
(***************************************************************************)
trackFrame == <<envVars, unitVars, pageVars, playerVars, loadVars, phase, raised>>

\* the setTimeout callback of setupSubtitles
TrackTimeout ==
    /\ timerPending
    /\ timerPending' = FALSE
    /\ track' = "set"
    /\ last' = Ran("timeout")
    /\ UNCHANGED <<trackFrame, displayVars, nativeState, listeners>>

\* the track element's 'load' listener
OnTrackLoad ==
    /\ track' = "set"
    /\ listeners' = listeners \cup {"cuechange"}

\* the browser finished loading the track
TrackLoad ==
    /\ dom.track
    /\ nativeState = "pending"
    /\ nativeState' = "loaded"
    /\ IF "track.load" \in listeners THEN OnTrackLoad ELSE UNCHANGED <<track, listeners>>
    /\ last' = Ran("track.load")
    /\ UNCHANGED <<trackFrame, displayVars, timerPending>>

\* the track element's 'error' listener
OnTrackError ==
    /\ subtitleText' = MsgTrackFailed
    /\ UNCHANGED subtitleActive

\* the browser failed to load the track
TrackError ==
    /\ dom.track
    /\ nativeState = "pending"
    /\ nativeState' = "error"
    /\ IF "track.error" \in listeners THEN OnTrackError ELSE UNCHANGED displayVars
    /\ last' = Ran("track.error")
    /\ UNCHANGED <<trackFrame, track, listeners, timerPending>>

(***************************************************************************)
(* Subtitle updates.                                                       *)
(***************************************************************************)
\* faulty variant: the scan goes on after the cue the last call found
UpdateSubtitleByTime_ResumeScan(t, isPaused) ==
    LET cues == SelectedCues
        k    == ScanCues(cues, t, last.cue + 1)
    IN  /\ IF k # 0
           THEN /\ subtitleText' = cues[k].text
                /\ subtitleActive' = TRUE
           ELSE IF t > 0 /\ ~isPaused
           THEN /\ subtitleText' = Ellipsis
                /\ subtitleActive' = FALSE
           ELSE UNCHANGED displayVars
        /\ last' = [event |-> "timeupdate", called |-> "updateSubtitleByTime", cue |-> k,
                    status |-> -1]

\* faulty variant: the cue text is shown without the 'active' class
UpdateSubtitleByTime_NoActive(t, isPaused) ==
    LET cues == SelectedCues
        k    == ScanCues(cues, t, 1)
    IN  /\ IF k # 0
           THEN /\ subtitleText' = cues[k].text
                /\ UNCHANGED subtitleActive
           ELSE IF t > 0 /\ ~isPaused
           THEN /\ subtitleText' = Ellipsis
                /\ subtitleActive' = FALSE
           ELSE UNCHANGED displayVars
        /\ last' = [event |-> "timeupdate", called |-> "updateSubtitleByTime", cue |-> k,
                    status |-> -1]

\* faulty variant: the ellipsis is published whenever no cue is found
UpdateSubtitleByTime_AlwaysEllipsis(t, isPaused) ==
    LET cues == SelectedCues
        k    == ScanCues(cues, t, 1)
    IN  /\ IF k # 0
           THEN /\ subtitleText' = cues[k].text
                /\ subtitleActive' = TRUE
           ELSE /\ subtitleText' = Ellipsis
                /\ subtitleActive' = FALSE
        /\ last' = [event |-> "timeupdate", called |-> "updateSubtitleByTime", cue |-> k,
                    status |-> -1]

\* updateSubtitleByTime() with player.currentTime = t, player.paused = isPaused
UpdateSubtitleByTime(t, isPaused) ==
    LET cues == SelectedCues
        k    == ScanCues(cues, t, 1)
    IN  /\ IF k # 0
           THEN /\ subtitleText' = cues[k].text
                /\ subtitleActive' = TRUE
           ELSE IF t > 0 /\ ~isPaused
           THEN /\ subtitleText' = Ellipsis
                /\ subtitleActive' = FALSE
           ELSE UNCHANGED displayVars
        /\ last' = [event |-> "timeupdate", called |-> "updateSubtitleByTime", cue |-> k,
                    status |-> -1]

\* faulty variant: the listener updates without looking at the track
OnTimeUpdate_Unguarded(t, isPaused) == UpdateSubtitleByTime(t, isPaused)

\* the 'timeupdate' listener of setupSubtitles
OnTimeUpdate(t, isPaused) ==
    IF track = "set" /\ Len(NativeCues) > 0
    THEN UpdateSubtitleByTime(t, isPaused)
    ELSE /\ UNCHANGED displayVars
         /\ last' = Ran("timeupdate")

\* updateSubtitle(), run by the 'cuechange' listener
UpdateSubtitle ==
    LET k == ActiveCues(currentTime)
    IN  /\ IF track = "null" \/ ~dom.display
           THEN UNCHANGED displayVars
           ELSE IF k # 0
           THEN /\ subtitleText' = NativeCues[k].text
                /\ subtitleActive' = TRUE
           ELSE IF currentTime > 0 /\ ~paused
           THEN /\ subtitleText' = Ellipsis
                /\ subtitleActive' = FALSE
           ELSE UNCHANGED displayVars
        /\ last' = [event |-> "cuechange", called |-> "updateSubtitle",
                    cue |-> IF track = "null" \/ ~dom.display THEN 0 ELSE k,
                    status |-> -1]

mediaFrame == <<envVars, unitVars, pageVars, trackVars, loadVars, phase>>

\* the playback position changes (playing on, or a seek) and the player
\* fires 'timeupdate'
TimeUpdate ==
    /\ dom.player
    /\ \E t \in Times :
          /\ currentTime' = t
          /\ IF "timeupdate" \in listeners
             THEN OnTimeUpdate(t, paused)
             ELSE /\ UNCHANGED displayVars
                  /\ last' = Ran("timeupdate")
    /\ UNCHANGED <<mediaFrame, paused, raised>>

\* the browser fires 'cuechange' on the text track
CueChange ==
    /\ "cuechange" \in listeners
    /\ UpdateSubtitle
    /\ UNCHANGED <<mediaFrame, playerVars, raised>>

(***************************************************************************)
(* Player lifecycle listeners.                                             *)
(***************************************************************************)
\* the 'play' listener
OnPlay ==
    IF currentTime < 1000
    THEN IF track = "null"
         THEN /\ raised' = TRUE               \* null.activeCues: TypeError
              /\ UNCHANGED displayVars
         ELSE /\ raised' = raised
              /\ IF ActiveCues(currentTime) = 0
                 THEN subtitleText' = MsgLoading /\ UNCHANGED subtitleActive
                 ELSE UNCHANGED displayVars
    ELSE UNCHANGED <<displayVars, raised>>

\* the 'pause' listener
OnPause ==
    IF currentTime = 0
    THEN subtitleText' = MsgReady /\ subtitleActive' = FALSE
    ELSE UNCHANGED displayVars

\* the 'ended' listener
OnEnded ==
    /\ subtitleText' = MsgEnded
    /\ subtitleActive' = FALSE

\* playback starts
Play ==
    /\ dom.player
    /\ paused
    /\ paused' = FALSE
    /\ IF "play" \in listeners THEN OnPlay ELSE UNCHANGED <<displayVars, raised>>
    /\ last' = Ran("play")
    /\ UNCHANGED <<mediaFrame, currentTime>>

\* playback is paused
Pause ==
    /\ dom.player
    /\ ~paused
    /\ paused' = TRUE
    /\ IF "pause" \in listeners THEN OnPause ELSE UNCHANGED displayVars
    /\ last' = Ran("pause")
    /\ UNCHANGED <<mediaFrame, currentTime, raised>>

\* playback reaches the end of the media: the player pauses itself and fires
\* 'ended' (the 'pause' listener sees a position > 0 and does nothing)
Ended ==
    /\ dom.player
    /\ ~paused
    /\ currentTime = 1000 * MaxTime
    /\ paused' = TRUE
    /\ IF "ended" \in listeners THEN OnEnded ELSE UNCHANGED displayVars
    /\ last' = Ran("ended")
    /\ UNCHANGED <<mediaFrame, currentTime, raised>>

Next ==
    \/ AudioInit
    \/ FetchRespond
    \/ FetchReject
    \/ FetchBody
    \/ FetchBodyReject
    \/ XhrLoad
    \/ XhrError
    \/ TrackTimeout
    \/ TrackLoad
    \/ TrackError
    \/ TimeUpdate
    \/ CueChange
    \/ Play
    \/ Pause
    \/ Ended

Spec == Init /\ [][Next]_vars

(***************************************************************************)
(* updateSubtitleByTime applied on its own to a drawn player state.        *)
(***************************************************************************)
DigitStr(n) == SubSeq("0123456789", n + 1, n + 1)

\* start and end times of drawn cues, in ms
CueTimes == {0, 1000, 2000}

\* cues with every order of start and end, and cues with a NaN time
CuePool ==
    { [startTime |-> Num(s), endTime |-> Num(e),
       text |-> "cue " \o DigitStr(s \div 1000) \o "-" \o DigitStr(e \div 1000)] :
          s \in CueTimes, e \in CueTimes }
    \cup { [startTime |-> NaN, endTime |-> Num(2000), text |-> "cue NaN-"],
           [startTime |-> Num(0), endTime |-> NaN, text |-> "cue -NaN"] }

CueLists == UNION { [1..n -> CuePool] : n \in 0..MaxCues }

ScanInit ==
    /\ dom = [player |-> TRUE, display |-> TRUE, track |-> TRUE]
    /\ phase = "inited"
    /\ listeners = {}
    /\ timerPending = FALSE
    /\ resource = ""
    /\ fetchState = "idle"
    /\ xhrState = "unsent"
    /\ calls = NoCalls
    /\ last = NoCall
    /\ raised = FALSE
    /\ NavConstructed
    /\ ExercisesIdle
    /\ DebounceIdle
    /\ arg = "" /\ ret = 0
    /\ \E cs \in CueLists :
          \/ /\ track = "set"
             /\ nativeState = "loaded"
             /\ trackCues = cs
             /\ manualCues = <<Cue(0, 1000 * MaxTime, "manual")>>
          \/ /\ track \in {"null", "set"}
             /\ nativeState = "error"
             /\ trackCues = <<>>
             /\ manualCues = cs
    /\ currentTime \in Times
    /\ paused \in BOOLEAN
    /\ subtitleText = InitialText
    /\ subtitleActive \in BOOLEAN

\* a direct call of AudioPlayer.updateSubtitleByTime(); ret counts the calls
CallUpdateSubtitleByTime ==
    /\ ret < MaxCalls
    /\ UpdateSubtitleByTime(currentTime, paused)
    /\ ret' = ret + 1
    /\ UNCHANGED <<envVars, arg, pageVars, playerVars, trackVars, loadVars, phase, raised>>

ScanNext == CallUpdateSubtitleByTime

SpecScan == ScanInit /\ [][ScanNext]_vars

(***************************************************************************)
(* parseVTT applied on its own to a drawn text.                            *)
(***************************************************************************)
LinePool ==
    { "WEBVTT", "", "  ", "00:01.000 --> 00:03.000", "3 --> 1.5", "x -->",
      " Hello\r", "world" }

RECURSIVE JoinLines(_)
JoinLines(ls) ==
    IF Len(ls) = 1 THEN ls[1] ELSE ls[1] \o "\n" \o JoinLines(Tail(ls))

Texts == { JoinLines(ls) : ls \in UNION { [1..n -> LinePool] : n \in 1..MaxLines } }

\* a player object nothing has run on, on a complete page
AudioUntouched ==
    /\ dom = [player |-> TRUE, display |-> TRUE, track |-> TRUE]
    /\ trackCues = <<>>
    /\ nativeState = "pending"
    /\ currentTime = 0
    /\ paused = TRUE
    /\ subtitleText = InitialText
    /\ subtitleActive = FALSE
    /\ Constructed

Untouched == AudioUntouched /\ NavConstructed /\ ExercisesIdle /\ DebounceIdle

ParseInit ==
    /\ Untouched
    /\ resource \in Texts
    /\ arg = "" /\ ret = ""

\* a direct call of AudioPlayer.parseVTT(resource)
CallParseVTT ==
    /\ calls.parse = 0
    /\ manualCues' = ParseVTT(manualCues, resource)
    /\ calls' = [calls EXCEPT !.parse = @ + 1]
    /\ last' = Ran("parseVTT")
    /\ UNCHANGED <<envVars, unitVars, pageVars, displayVars, playerVars, trackVars,
                   phase, raised, fetchState, xhrState>>

ParseNext == CallParseVTT

SpecParse == ParseInit /\ [][ParseNext]_vars

(***************************************************************************)
(* parseTimestamp applied on its own to a drawn timestamp.                 *)
(***************************************************************************)
Pad2(n) == DigitStr(n \div 10) \o DigitStr(n % 10)

RECURSIVE Pow10(_)
Pow10(n) == IF n = 0 THEN 1 ELSE 10 * Pow10(n - 1)

\* the decimal numeral of v written with exactly n digits
RECURSIVE PadN(_, _)
PadN(v, n) == IF n = 0 THEN "" ELSE PadN(v \div 10, n - 1) \o DigitStr(v % 10)

\* fractional parts: <<number of digits, value of the digits>>; 0 digits
\* means the fractional part is left out
FracPool == { <<0, 0>>, <<1, 5>>, <<2, 5>>, <<2, 25>>, <<3, 5>>, <<3, 250>>, <<3, 999>> }

\* the text of a timestamp with the given number of colon-delimited fields
FormatTimestamp(fields, h, m, sec, frac, pad) ==
    LET F(n) == IF pad \/ n > 9 THEN Pad2(n) ELSE DigitStr(n)
    IN  (IF fields = 3 THEN F(h) \o ":" ELSE "")
        \o (IF fields >= 2 THEN F(m) \o ":" ELSE "")
        \o F(sec)
        \o (IF frac[1] = 0 THEN "" ELSE "." \o PadN(frac[2], frac[1]))

TimestampArgs ==
    { [fields |-> f, h |-> h, m |-> m, s |-> sec, frac |-> fr,
       text |-> FormatTimestamp(f, h, m, sec, fr, pad)] :
         f \in 1..3, h \in 0..MaxField, m \in 0..MaxField, sec \in 0..MaxField,
         fr \in FracPool, pad \in BOOLEAN }

NoResult == [done |-> FALSE, value |-> NaN]

TimestampInit ==
    /\ Untouched
    /\ resource = ""
    /\ arg \in { a \in TimestampArgs : (a.fields < 3 => a.h = 0) /\ (a.fields < 2 => a.m = 0) }
    /\ ret = NoResult

\* a direct call of AudioPlayer.parseTimestamp(arg.text)
CallParseTimestamp ==
    /\ ~ret.done
    /\ ret' = [done |-> TRUE, value |-> ParseTimestamp(arg.text)]
    /\ last' = Ran("parseTimestamp")
    /\ UNCHANGED <<envVars, pageVars, displayVars, playerVars, trackVars, loadVars, phase,
                   raised, arg>>

TimestampNext == CallParseTimestamp

SpecTimestamp == TimestampInit /\ [][TimestampNext]_vars

(***************************************************************************)
(* Properties.                                                             *)
(***************************************************************************)
\* t lies in the cue's interval, both ends included
Inside(cue, t) ==
    /\ ~cue.startTime.nan /\ ~cue.endTime.nan
    /\ cue.startTime.v <= t /\ t <= cue.endTime.v

\* the lowest index of a cue of cues whose interval holds t, 0 when none does
FirstInside(cues, t) ==
    LET hits == {i \in 1..Len(cues) : Inside(cues[i], t)}
    IN  IF hits = {} THEN 0 ELSE CHOOSE i \in hits : \A j \in hits : i <= j

\* the load of the transcript has ended in a parsed track
Parsed == fetchState = "ok" \/ xhrState = "ok"

\* C1: when fetch fails (a rejection, a non-2xx status, an unreadable body)
\* loadVTTWithXHR has been invoked exactly once, and it is never invoked
\* unless fetch has failed.
C1_FallbackExactlyOnce ==
    /\ calls.xhr <= 1
    /\ (fetchState = "failed" => calls.xhr = 1 /\ xhrState # "unsent")
    /\ (calls.xhr > 0 \/ xhrState # "unsent" => fetchState = "failed")

\* C1 witness: fetch was answered with a non-2xx status and the request of
\* the fallback is outstanding
C1_Witness ==
    /\ last.event = "fetch.response"
    /\ fetchState = "failed"
    /\ xhrState = "pending"
    /\ calls.xhr = 1

\* C2: once both transports have failed, the failure message has been
\* published exactly once, and exactly one fetch and one XHR were ever started
\* (none is outstanding, none is started again).
C2_TerminalFailureOnce ==
    (fetchState = "failed" /\ xhrState = "failed") =>
        /\ calls.failMsg = 1
        /\ calls.fetch = 1
        /\ calls.xhr = 1
        /\ calls.parse = 0

\* C2 witness: both transports failed, the display holds the failure message
\* and later events have been handled
C2_Witness ==
    /\ fetchState = "failed"
    /\ xhrState = "failed"
    /\ subtitleText \in {MsgXhrStatus, MsgXhrError}
    /\ last.event = "timeupdate"

\* C3: the scan of updateSubtitleByTime returns the lowest-indexed cue, in
\* stored order, whose interval [startTime, endTime] holds currentTime, and
\* none exactly when no cue of the scanned track holds it.
C3_FirstMatchInStoredOrder ==
    last.called = "updateSubtitleByTime" =>
        LET cues == SelectedCues
            hits == {i \in 1..Len(cues) : Inside(cues[i], currentTime)}
        IN  /\ (last.cue = 0 <=> hits = {})
            /\ (hits # {} => last.cue \in hits /\ \A j \in hits : last.cue <= j)

\* C3 witness: two cues hold currentTime, the one stored first starts later
\* and ends exactly at currentTime, and it is the one returned
C3_Witness ==
    /\ last.called = "updateSubtitleByTime"
    /\ Len(SelectedCues) = 2
    /\ Inside(SelectedCues[1], currentTime)
    /\ Inside(SelectedCues[2], currentTime)
    /\ SelectedCues[1].startTime.v > SelectedCues[2].startTime.v
    /\ SelectedCues[1].endTime.v = currentTime
    /\ last.cue = 1

\* C4: with the transcript loaded and parsed, after a timeupdate handled for
\* a position inside a cue of the manually parsed track the display shows
\* that cue's text -- stated for the case the claim names, a browser track
\* that is attached and supplies no cues.
C4_TimeUpdateShowsManualCue ==
    ( /\ last.event = "timeupdate"
      /\ "timeupdate" \in listeners
      /\ Parsed
      /\ track = "set"
      /\ nativeState # "pending"
      /\ Len(NativeCues) = 0
      /\ FirstInside(manualCues, currentTime) # 0 )
    => /\ subtitleText = manualCues[FirstInside(manualCues, currentTime)].text
       /\ subtitleActive

\* C5: whenever updateSubtitleByTime or updateSubtitle has run, a resolved cue
\* has its text on the display with 'active' set; with no cue resolved, a
\* position > 0 and playback not paused, the display holds the ellipsis with
\* 'active' cleared.
C5_PublishCueOrEllipsis ==
    /\ last.called = "updateSubtitleByTime" =>
          LET k == FirstInside(SelectedCues, currentTime)
          IN  /\ (k # 0 => subtitleText = SelectedCues[k].text /\ subtitleActive)
              /\ (k = 0 /\ currentTime > 0 /\ ~paused =>
                     subtitleText = Ellipsis /\ ~subtitleActive)
    /\ last.called = "updateSubtitle" =>
          /\ (last.cue # 0 => subtitleText = NativeCues[last.cue].text /\ subtitleActive)
          /\ (last.cue = 0 /\ currentTime > 0 /\ ~paused =>
                 subtitleText = Ellipsis /\ ~subtitleActive)

\* C5 witness: a timeupdate found a cue and its text is shown as active
C5_Witness ==
    /\ last.called = "updateSubtitleByTime"
    /\ last.cue # 0
    /\ subtitleText = SelectedCues[last.cue].text
    /\ subtitleActive

\* C6: a call of updateSubtitleByTime that resolves no cue, at position 0 or
\* with playback paused, changes neither the displayed text nor the active
\* flag.
C6_UntouchedWhenUnstartedOrPaused ==
    [][ ( /\ last'.called = "updateSubtitleByTime"
          /\ FirstInside(SelectedCues', currentTime') = 0
          /\ (currentTime' = 0 \/ paused') )
        => UNCHANGED <<subtitleText, subtitleActive>> ]_vars

\* C6 witness: the call ran paused at a position > 0 outside every cue and
\* the display still holds its initial text and its active flag
C6_Witness ==
    /\ last.called = "updateSubtitleByTime"
    /\ last.cue = 0
    /\ Len(SelectedCues) > 0
    /\ paused
    /\ currentTime > 0
    /\ subtitleText = InitialText
    /\ subtitleActive

(***************************************************************************)
(* The cues a text holds, read off its lines.                              *)
(***************************************************************************)
IsTiming(lines, i) == Includes(lines[i], "-->")
IsBlank(lines, i) == Trim(lines[i]) = ""

\* a timing line that no earlier timing line reaches through non-blank lines
IsHead(lines, i) ==
    /\ IsTiming(lines, i)
    /\ ~\E j \in 1..(i - 1) : IsTiming(lines, j) /\ \A k \in j..i : ~IsBlank(lines, k)

Heads(lines) == {i \in 1..Len(lines) : IsHead(lines, i)}

\* the last of the non-blank lines that follow line h without a gap
LastTextLine(lines, h) ==
    CHOOSE e \in h..Len(lines) :
        /\ \A k \in (h + 1)..e : ~IsBlank(lines, k)
        /\ (e < Len(lines) => IsBlank(lines, e + 1))

RECURSIVE JoinTrimmed(_, _, _)
JoinTrimmed(lines, from, to) ==
    IF from > to THEN ""
    ELSE IF from = to THEN Trim(lines[from])
    ELSE Trim(lines[from]) \o " " \o JoinTrimmed(lines, from + 1, to)

ExpectedCue(lines, h) ==
    LET fields == Split(Trim(lines[h]), "-->")
    IN  [startTime |-> ParseTimestamp(Trim(fields[1])),
         endTime   |-> ParseTimestamp(Trim(fields[2])),
         text      |-> JoinTrimmed(lines, h + 1, LastTextLine(lines, h))]

\* C7: parseVTT yields, in the order of the lines, exactly one cue per timing
\* line that is not taken as text of an earlier cue; a cue's text is its
\* following non-blank lines, trimmed and joined by one space, up to the
\* first blank line or the end of the input; no other line adds a cue.
C7_OneCuePerTimingLine ==
    calls.parse = 1 =>
        LET lines == Split(resource, "\n")
            heads == Heads(lines)
        IN  /\ Len(manualCues) = Cardinality(heads)
            /\ \A h \in heads :
                  manualCues[Cardinality({g \in heads : g <= h})] = ExpectedCue(lines, h)

\* C7 witness: a header line, a timing line and two text lines to trim and
\* join have been parsed into one cue
C7_Witness ==
    /\ calls.parse = 1
    /\ resource = "WEBVTT\n00:01.000 --> 00:03.000\n Hello\r\nworld"
    /\ manualCues = <<Cue(1000, 3000, "Hello world")>>

\* the value, in ms, the fields of the drawn timestamp denote
ExpectedMs(a) ==
    a.h * 3600000 + a.m * 60000 + a.s * 1000 + a.frac[2] * Pow10(3 - a.frac[1])

\* C8: parseTimestamp returns H*3600 + M*60 + S + 0.fff with the fields
\* present decided by the number of colon-delimited fields and the fraction
\* optional; '00:01:05.250' and '01:05.250' give 65250 ms, '5.250' 5250 ms.
C8_TimestampValue ==
    /\ ret.done => ret.value = Num(ExpectedMs(arg))
    /\ ParseTimestamp("00:01:05.250") = Num(65250)
    /\ ParseTimestamp("01:05.250") = Num(65250)
    /\ ParseTimestamp("5.250") = Num(5250)

\* C8 witness: a two-field timestamp with a fraction has been parsed
C8_Witness ==
    /\ ret.done
    /\ arg.text = "01:05.250"
    /\ arg.fields = 2
    /\ ret.value = Num(65250)

\* C9: when fetch succeeds its body is parsed exactly once and no XHR is
\* ever started; in every run a body is parsed at most once, by the first
\* transport that succeeds, XHR being tried only after fetch failed.
C9_ParsedOnceInOrder ==
    /\ calls.parse <= 1
    /\ (fetchState = "ok" => calls.parse = 1 /\ calls.xhr = 0 /\ xhrState = "unsent")
    /\ (xhrState = "ok" => calls.parse = 1 /\ fetchState = "failed")
    /\ (calls.parse = 1 => Parsed)

\* C9 witness: fetch succeeded, its body (two cues) is parsed and the
\* fallback was never started
C9_Witness ==
    /\ fetchState = "ok"
    /\ calls.parse = 1
    /\ Len(manualCues) = 2
    /\ calls.xhr = 0

\* C10: every cue of the parsed track has 0 <= startTime <= endTime.
C10_CueTimesOrdered ==
    \A i \in 1..Len(manualCues) :
        /\ ~manualCues[i].startTime.nan
        /\ ~manualCues[i].endTime.nan
        /\ 0 <= manualCues[i].startTime.v
        /\ manualCues[i].startTime.v <= manualCues[i].endTime.v

(***************************************************************************)
(* parseVTT applied again, to another resource (a reload).                 *)
(***************************************************************************)
\* parseVTT is applied at most MaxParses times
MaxParses == 2

\* resources a reload may bring
ReloadPool ==
    BodyPool \cup { "00:01.000 --> 00:03.000\nHello",
                    "WEBVTT\n\n3 --> 4\nlate",
                    "0 --> 1\n\n1 --> 2\nb" }

ReloadInit ==
    /\ Untouched
    /\ resource \in ReloadPool
    /\ arg = "" /\ ret = ""

reloadFrame == <<dom, trackCues, unitVars, pageVars, displayVars, playerVars, trackVars, phase,
                 raised, fetchState, xhrState>>

\* the resource at the transcript URL is replaced
LoadResource ==
    /\ \E r \in ReloadPool : r # resource /\ resource' = r
    /\ last' = Ran("loadResource")
    /\ UNCHANGED <<reloadFrame, manualCues, calls>>

\* a direct call of AudioPlayer.parseVTT(resource), the first or a later one
CallParseVTTAgain ==
    /\ calls.parse < MaxParses
    /\ manualCues' = ParseVTT(manualCues, resource)
    /\ calls' = [calls EXCEPT !.parse = @ + 1]
    /\ last' = Ran("parseVTT")
    /\ UNCHANGED <<reloadFrame, resource>>

ReloadNext == LoadResource \/ CallParseVTTAgain

SpecReload == ReloadInit /\ [][ReloadNext]_vars

\* the cues of a text, in order, read off its lines
ExpectedCues(text) ==
    LET lines == Split(text, "\n")
        heads == Heads(lines)
    IN  [k \in 1..Cardinality(heads) |->
            ExpectedCue(lines, CHOOSE h \in heads : Cardinality({g \in heads : g <= h}) = k)]

\* C11: after any parse of a resource the track holds exactly the cues of
\* that resource; no cue of a resource parsed before remains in it.
C11_TrackReplacedOnReload ==
    last.event = "parseVTT" => manualCues = ExpectedCues(resource)

\* both transports have failed
BothFailed == fetchState = "failed" /\ xhrState = "failed"

FailureMessages == {MsgXhrStatus, MsgXhrError}

\* C12: on a page whose audio player has no track element the subsystem
\* stays inert: after init no event ever changes the display surface.
C12_InertWithoutTrack ==
    (phase = "inited" /\ ~dom.track) =>
        subtitleText = InitialText /\ ~subtitleActive

C14_XhrSuccessStatuses ==
    /\ last.event = "xhr.load" =>
          IF last.status \in {0, 200}
          THEN /\ xhrState = "ok"
               /\ calls.parse = 1
               /\ manualCues = ExpectedCues(resource)
               /\ calls.failMsg = 0
          ELSE /\ xhrState = "failed"
               /\ calls.parse = 0
               /\ manualCues = <<>>
               /\ calls.failMsg = 1
               /\ subtitleText = MsgXhrStatus
    /\ last.event = "xhr.error" =>
          /\ xhrState = "failed"
          /\ calls.parse = 0
          /\ manualCues = <<>>
          /\ calls.failMsg = 1
          /\ subtitleText = MsgXhrError

\* C14 witness: a response with status 0 (local file) was parsed into cues
C14_Witness ==
    /\ last.event = "xhr.load"
    /\ last.status = 0
    /\ xhrState = "ok"
    /\ Len(manualCues) = 2

\* a field in which no digit occurs
NoDigits(field) == \A k \in 1..Len(field) : ~IsDigit(CharAt(field, k))

\* C15: parseVTT ends without raising on every text; a timing line whose
\* time fields are empty or hold no number still yields its cue, with NaN as
\* the time, appended in line order with its text like any other cue.
C15_MalformedTimingStillYieldsCue ==
    calls.parse = 1 =>
        LET lines == Split(resource, "\n")
            heads == Heads(lines)
        IN  /\ ~raised
            /\ Len(manualCues) = Cardinality(heads)
            /\ \A h \in heads :
                  LET fields == Split(Trim(lines[h]), "-->")
                      cue    == manualCues[Cardinality({g \in heads : g <= h})]
                  IN  /\ Len(fields) >= 2
                      /\ NoDigits(fields[1]) => cue.startTime = NaN
                      /\ NoDigits(fields[2]) => cue.endTime = NaN
                      /\ cue.text = JoinTrimmed(lines, h + 1, LastTextLine(lines, h))

\* C15 witness: 'x -->' (no number before the arrow, nothing after it) has
\* been parsed into a cue with NaN times and the text of the next line
C15_Witness ==
    /\ calls.parse = 1
    /\ resource = "x -->\nworld"
    /\ manualCues = <<[startTime |-> NaN, endTime |-> NaN, text |-> "world"]>>

\* C16: a call of updateSubtitleByTime that repeats the last one (same cue
\* list, same currentTime, same paused flag) finds the same cue or none again
\* and leaves the display as the first call left it.
C16_RepeatedCallSameOutcome ==
    [][ ( /\ last.called = "updateSubtitleByTime"
          /\ last'.called = "updateSubtitleByTime"
          /\ SelectedCues' = SelectedCues
          /\ currentTime' = currentTime
          /\ paused' = paused )
        => /\ last'.cue = last.cue
           /\ subtitleText' = subtitleText
           /\ subtitleActive' = subtitleActive ]_vars

\* C16 witness: the call ran twice at a time inside both of two cues and the
\* display holds the first cue
C16_Witness ==
    /\ ret = 2
    /\ last.called = "updateSubtitleByTime"
    /\ Len(SelectedCues) = 2
    /\ Inside(SelectedCues[1], currentTime)
    /\ Inside(SelectedCues[2], currentTime)
    /\ SelectedCues[1].text # SelectedCues[2].text
    /\ last.cue = 1
    /\ subtitleText = SelectedCues[1].text
    /\ subtitleActive

\* the caption requests sent and not yet settled
Outstanding ==
    (IF fetchState \in {"pending", "reading"} THEN 1 ELSE 0)
        + (IF xhrState = "pending" THEN 1 ELSE 0)

\* C17: the load is started once, by init, when the player and the display
\* exist, and never before or again; at every moment at most one caption
\* request (the fetch or the XHR) is outstanding.
C17_OneLoadInFlight ==
    /\ Outstanding <= 1
    /\ calls.fetch <= 1
    /\ calls.xhr <= 1
    /\ (phase = "constructed" => calls.fetch = 0 /\ Outstanding = 0)
    /\ (phase = "inited" /\ dom.player /\ dom.display => calls.fetch = 1)

\* C17 witness: the fetch was rejected, so the one request outstanding is
\* the XHR, while playback goes on
C17_Witness ==
    /\ calls.fetch = 1
    /\ fetchState = "failed"
    /\ xhrState = "pending"
    /\ Outstanding = 1
    /\ last.event = "timeupdate"
    /\ currentTime > 0

\* C18: no handler registered by init raises: the play listener never reads
\* activeCues of a track that is still null.
C18_HandlersNeverRaise == ~raised

(***************************************************************************)
(* Navigation (src/js/navigation.js) on a page of sections and nav buttons. *)
(***************************************************************************)
\* the elements of class 'section' and their ids ("" for no id attribute)
Sections == {"sec_intro", "sec_sql", "sec_plain"}
SectionId == [s \in Sections |->
                 CASE s = "sec_intro" -> "intro"
                   [] s = "sec_sql"   -> "sql"
                   [] OTHER           -> ""]

\* an element with an id that is neither a section nor a nav button
Others == {"audioPlayer"}

\* the elements of class 'nav-btn' and their data-section attributes ("" for
\* none); two buttons share a target and one names no element
Buttons == {"btn_intro", "btn_sql", "btn_sql_mobile", "btn_ghost", "btn_plain"}
DataSection == [b \in Buttons |->
                   CASE b = "btn_intro"      -> "intro"
                     [] b = "btn_sql"        -> "sql"
                     [] b = "btn_sql_mobile" -> "sql"
                     [] b = "btn_ghost"      -> "ghost"
                     [] OTHER                -> ""]

\* document.getElementById(id): the set holding the element, empty for null
GetElementById(id) ==
    {s \in Sections : SectionId[s] = id} \cup {o \in Others : o = id}

\* the ids a URL hash or an inline handler passes to showSection
SectionArgs == {"intro", "sql", "ghost", "audioPlayer"}
Widths == {MobileMaxWidth - 1, MobileMaxWidth, MobileMaxWidth + 1}

\* faulty variant: the overflow style is left as it is
CloseMobileMenu_KeepOverflow ==
    /\ mobileMenuOpen' = FALSE
    /\ bodyMenuClass' = FALSE
    /\ UNCHANGED bodyOverflow

\* Navigation.closeMobileMenu()
CloseMobileMenu ==
    /\ mobileMenuOpen' = FALSE
    /\ bodyMenuClass' = FALSE
    /\ bodyOverflow' = ""

\* Navigation.openMobileMenu()
OpenMobileMenu ==
    /\ mobileMenuOpen' = TRUE
    /\ bodyMenuClass' = TRUE
    /\ bodyOverflow' = "hidden"

\* Navigation.toggleMobileMenu()
ToggleMobileMenu ==
    /\ mobileMenuOpen' = ~mobileMenuOpen
    /\ bodyMenuClass' = mobileMenuOpen'
    /\ bodyOverflow' = IF mobileMenuOpen' THEN "hidden" ELSE ""

\* faulty variant: the buttons that were active stay active
ShowSection_KeepButtons(sectionId) ==
    /\ active' = (active \ Sections) \cup GetElementById(sectionId)
                    \cup {b \in Buttons : DataSection[b] = sectionId}
    /\ IF innerWidth <= MobileMaxWidth THEN CloseMobileMenu ELSE UNCHANGED menuVars
    /\ locationHash' = sectionId
    /\ arg' = sectionId

\* Navigation.showSection(sectionId); arg keeps the id it was called with
ShowSection(sectionId) ==
    /\ active' = (active \ (Sections \cup Buttons)) \cup GetElementById(sectionId)
                    \cup {b \in Buttons : DataSection[b] = sectionId}
    /\ IF innerWidth <= MobileMaxWidth THEN CloseMobileMenu ELSE UNCHANGED menuVars
    /\ locationHash' = sectionId
    /\ arg' = sectionId

\* Navigation.loadFromHash(), run with the flag Navigation.init has just set
LoadFromHash ==
    IF locationHash # ""
    THEN ShowSection(locationHash)
    ELSE /\ mobileMenuOpen' = FALSE
         /\ UNCHANGED <<bodyMenuClass, bodyOverflow, active, locationHash, arg>>

\* Navigation.handleNavClick(event) with event.currentTarget = button
HandleNavClick(button) ==
    IF DataSection[button] # ""
    THEN ShowSection(DataSection[button])
    ELSE UNCHANGED <<menuVars, active, locationHash, arg>>

\* the audio player and the load, which Navigation never touches
audioVars == <<envVars, ret, displayVars, playerVars, trackVars, loadVars, phase, raised>>

\* a page as it is served, before any script ran: any of its sections and
\* buttons may carry 'active', the menu is closed
NavInit ==
    /\ AudioUntouched
    /\ ExercisesIdle
    /\ DebounceIdle
    /\ navPhase = "constructed"
    /\ mobileMenuOpen = FALSE
    /\ bodyMenuClass = FALSE
    /\ bodyOverflow = ""
    /\ active \in SUBSET (Sections \cup Buttons)
    /\ innerWidth \in Widths
    /\ locationHash \in SectionArgs \cup {""}
    /\ resource = ""
    /\ arg = "" /\ ret = ""

\* initializeApp: Navigation.init() followed by Navigation.loadFromHash()
InitializeNavigation ==
    /\ navPhase = "constructed"
    /\ navPhase' = "inited"
    /\ LoadFromHash
    /\ last' = Ran("nav.init")
    /\ UNCHANGED <<audioVars, exerciseVars, debounceVars, innerWidth>>

\* a click on a nav button
ClickNavButton ==
    /\ navPhase = "inited"
    /\ \E button \in Buttons : HandleNavClick(button)
    /\ last' = Ran("nav.click")
    /\ UNCHANGED <<audioVars, exerciseVars, debounceVars, navPhase, innerWidth>>

\* window.showSection(sectionId), called by an inline handler
CallShowSection ==
    /\ navPhase = "inited"
    /\ \E sectionId \in SectionArgs : ShowSection(sectionId)
    /\ last' = Ran("showSection")
    /\ UNCHANGED <<audioVars, exerciseVars, debounceVars, navPhase, innerWidth>>

navFrame == <<audioVars, exerciseVars, debounceVars, arg, navPhase, active, innerWidth, locationHash>>

\* the menu button: Navigation.toggleMobileMenu()
CallToggleMobileMenu ==
    /\ navPhase = "inited"
    /\ ToggleMobileMenu
    /\ last' = Ran("toggleMobileMenu")
    /\ UNCHANGED navFrame

CallOpenMobileMenu ==
    /\ navPhase = "inited"
    /\ OpenMobileMenu
    /\ last' = Ran("openMobileMenu")
    /\ UNCHANGED navFrame

CallCloseMobileMenu ==
    /\ navPhase = "inited"
    /\ CloseMobileMenu
    /\ last' = Ran("closeMobileMenu")
    /\ UNCHANGED navFrame

\* the 'keydown' listener of setupEventListeners, for the Escape key
KeydownEscape ==
    /\ navPhase = "inited"
    /\ IF mobileMenuOpen
       THEN /\ CloseMobileMenu
            /\ last' = [Ran("keydown") EXCEPT !.called = "closeMobileMenu"]
       ELSE /\ UNCHANGED menuVars
            /\ last' = Ran("keydown")
    /\ UNCHANGED navFrame

\* the window is resized
Resize ==
    /\ \E w \in Widths : w # innerWidth /\ innerWidth' = w
    /\ last' = Ran("resize")
    /\ UNCHANGED <<audioVars, exerciseVars, debounceVars, arg, navPhase, menuVars, active, locationHash>>

NavNext ==
    \/ InitializeNavigation
    \/ ClickNavButton
    \/ CallShowSection
    \/ CallToggleMobileMenu
    \/ CallOpenMobileMenu
    \/ CallCloseMobileMenu
    \/ KeydownEscape
    \/ Resize

SpecNav == NavInit /\ [][NavNext]_vars

\* C19: once showSection(id) has run, the sections with 'active' are exactly
\* those whose id is the id of the last call (at most one, none for an id
\* that names no section) and the nav buttons with 'active' are exactly those
\* whose data-section is that id, whatever was called before.
C19_ActiveFollowsShowSection ==
    arg # "" =>
        /\ active \cap Sections = {s \in Sections : SectionId[s] = arg}
        /\ Cardinality(active \cap Sections) <= 1
        /\ active \cap Buttons = {b \in Buttons : DataSection[b] = arg}

\* C19 witness: after other sections were shown, a click selected 'sql':
\* its section and both of its buttons are the active ones
C19_Witness ==
    /\ last.event = "nav.click"
    /\ arg = "sql"
    /\ "audioPlayer" \in active
    /\ active \cap Sections = {"sec_sql"}
    /\ active \cap Buttons = {"btn_sql", "btn_sql_mobile"}

\* C20: after Navigation.init, mobileMenuOpen is true exactly when the body
\* has the class 'mobile-menu-open' and exactly when its overflow is 'hidden'.
C20_MenuFlagMatchesBody ==
    navPhase = "inited" =>
        /\ mobileMenuOpen <=> bodyMenuClass
        /\ mobileMenuOpen <=> bodyOverflow = "hidden"

\* C20 witness: the Escape key has closed an open menu
C20_Witness ==
    /\ last.event = "keydown"
    /\ last.called = "closeMobileMenu"
    /\ ~mobileMenuOpen
    /\ ~bodyMenuClass
    /\ bodyOverflow = ""

(***************************************************************************)
(* Exercises (src/js/exercises.js): solution toggles.                      *)
(***************************************************************************)
\* document order of querySelectorAll('.toggle-solution-btn')
ButtonOrder == <<"tb_first", "tb_second", "tb_other", "tb_last">>

\* the labels a button is served with
InitialLabels == {TextShow, "Solution"}

\* the exercise state as one value
Exercise == [show |-> showClass, text |-> buttonText, act |-> buttonActive,
             timers |-> mathTimers]

\* faulty variant: the class of the sibling is not looked at
ToggleSolution_AnySibling(ex, button) ==
    LET solution == NextElementSibling[button] IN
    IF solution = "null" THEN ex
    ELSE IF solution \notin ex.show
    THEN [show   |-> ex.show \cup {solution},
          text   |-> [ex.text EXCEPT ![button] = TextHide],
          act    |-> ex.act \cup {button},
          timers |-> ex.timers \cup {solution}]
    ELSE [show   |-> ex.show \ {solution},
          text   |-> [ex.text EXCEPT ![button] = TextShow],
          act    |-> ex.act \ {button},
          timers |-> ex.timers]

\* Exercises.toggleSolution(button) run in exercise state ex: the new state
ToggleSolution(ex, button) ==
    LET solution == NextElementSibling[button] IN
    IF solution = "null" \/ solution \notin Solutions THEN ex
    ELSE IF solution \notin ex.show
    THEN [show   |-> ex.show \cup {solution},
          text   |-> [ex.text EXCEPT ![button] = TextHide],
          act    |-> ex.act \cup {button},
          timers |-> ex.timers \cup {solution}]
    ELSE [show   |-> ex.show \ {solution},
          text   |-> [ex.text EXCEPT ![button] = TextShow],
          act    |-> ex.act \ {button},
          timers |-> ex.timers]

\* the forEach of showAllSolutions (wantShown) and of hideAllSolutions, from
\* the i-th button on
RECURSIVE ForEachButton(_, _, _)
ForEachButton(ex, i, wantShown) ==
    IF i > Len(ButtonOrder) THEN ex
    ELSE LET button   == ButtonOrder[i]
             solution == NextElementSibling[button]
         IN  IF solution # "null" /\ ((solution \in ex.show) # wantShown)
             THEN ForEachButton(ToggleSolution(ex, button), i + 1, wantShown)
             ELSE ForEachButton(ex, i + 1, wantShown)

\* Exercises.showAllSolutions()
ShowAllSolutions(ex) == ForEachButton(ex, 1, TRUE)

\* Exercises.hideAllSolutions()
HideAllSolutions(ex) == ForEachButton(ex, 1, FALSE)

\* the exercise state becomes ex
Becomes(ex) ==
    /\ showClass' = ex.show
    /\ buttonText' = ex.text
    /\ buttonActive' = ex.act
    /\ mathTimers' = ex.timers

\* a page as it is served: every solution hidden, no button active; the
\* sibling that is no solution may carry 'show'
ExercisesInit ==
    /\ AudioUntouched
    /\ NavConstructed
    /\ DebounceIdle
    /\ resource = ""
    /\ arg = "" /\ ret = ""
    /\ showClass \in SUBSET {"para"}
    /\ buttonText \in [ToggleButtons -> InitialLabels]
    /\ buttonActive = {}
    /\ mathTimers = {}

exerciseFrame == <<audioVars, navVars, debounceVars>>

\* a click on a toggle button (or window.toggleSolution(button)); arg keeps
\* the button
ClickToggleSolution ==
    /\ \E button \in ToggleButtons :
          /\ Becomes(ToggleSolution(Exercise, button))
          /\ arg' = button
    /\ last' = Ran("toggleSolution")
    /\ UNCHANGED exerciseFrame

CallShowAllSolutions ==
    /\ Becomes(ShowAllSolutions(Exercise))
    /\ last' = Ran("showAllSolutions")
    /\ UNCHANGED <<exerciseFrame, arg>>

CallHideAllSolutions ==
    /\ Becomes(HideAllSolutions(Exercise))
    /\ last' = Ran("hideAllSolutions")
    /\ UNCHANGED <<exerciseFrame, arg>>

\* a setTimeout(renderMath, 50) callback runs: renderMath changes no class
\* and no button
RenderMathTimer ==
    /\ \E solution \in mathTimers : mathTimers' = mathTimers \ {solution}
    /\ last' = Ran("renderMath")
    /\ UNCHANGED <<exerciseFrame, arg, showClass, buttonText, buttonActive>>

ExercisesNext ==
    \/ ClickToggleSolution
    \/ CallShowAllSolutions
    \/ CallHideAllSolutions
    \/ RenderMathTimer

SpecExercises == ExercisesInit /\ [][ExercisesNext]_vars

\* a button and its solution agree
ButtonAgrees(b) ==
    LET shown == NextElementSibling[b] \in Solutions /\ NextElementSibling[b] \in showClass
    IN  /\ buttonText[b] = TextHide <=> shown
        /\ b \in buttonActive <=> shown

\* C21: from all solutions hidden, after any toggleSolution, showAllSolutions
\* and hideAllSolutions, every toggle button reads 'Hide Solution' and has
\* 'active' exactly when its solution has 'show'; toggleSolution on a button
\* whose next sibling is missing or no '.solution' changes nothing.
C21_ButtonFollowsSolution ==
    /\ [](\A b \in ToggleButtons : ButtonAgrees(b))
    /\ [][ ( /\ last'.event = "toggleSolution"
             /\ NextElementSibling[arg'] \notin Solutions )
           => UNCHANGED <<showClass, buttonText, buttonActive, mathTimers>> ]_vars

\* C21 witness: a click has hidden the first solution again (its render timer
\* is still outstanding) while the second one is shown
C21_Witness ==
    /\ last.event = "toggleSolution"
    /\ arg = "tb_first"
    /\ "sol_first" \in mathTimers
    /\ showClass = {"sol_second", "para"}
    /\ buttonText["tb_first"] = TextShow
    /\ buttonText["tb_second"] = TextHide
    /\ buttonText["tb_other"] = "Solution"
    /\ buttonActive = {"tb_second"}

(***************************************************************************)
(* Utils.debounce (src/js/utils.js) as the resize listener of main.js      *)
(* uses it.                                                                *)
(***************************************************************************)
\* the arguments a call passes (resize events)
DebounceArgs == {"e1", "e2"}

\* faulty variant: clearTimeout cancels nothing
ClearTimeout_Noop(id) == timers

\* clearTimeout(id): the timers left; an id that names no outstanding timer
\* (undefined, or a timer that has fired) cancels nothing
ClearTimeout(id) == {t \in timers : t.id # id}

DebounceInit ==
    /\ AudioUntouched
    /\ NavConstructed
    /\ ExercisesIdle
    /\ resource = ""
    /\ arg = "" /\ ret = ""
    /\ debWait \in 0..MaxWait
    /\ now = 0
    /\ timers = {}
    /\ timeout = 0
    /\ callLog = <<>>
    /\ funcLog = <<>>

debounceFrame == <<audioVars, arg, navVars, exerciseVars, debWait>>

\* executedFunction(...args): the pending timer is cleared and a new one,
\* whose callback holds args, is set
ExecutedFunction ==
    /\ Len(callLog) < MaxBurst
    /\ \E args \in DebounceArgs :
          LET id == Len(callLog) + 1 IN
          /\ timers' = ClearTimeout(timeout)
                          \cup {[id |-> id, due |-> now + debWait, args |-> args]}
          /\ timeout' = id
          /\ callLog' = Append(callLog, [at |-> now, args |-> args])
    /\ last' = Ran("debounced.call")
    /\ UNCHANGED <<debounceFrame, now, funcLog>>

\* a timer is due and its callback later() runs: clearTimeout(timeout), then
\* func(...args)
Later ==
    /\ \E t \in timers :
          /\ now >= t.due
          /\ timers' = ClearTimeout(timeout) \ {t}
          /\ funcLog' = Append(funcLog, [at |-> now, args |-> t.args,
                                         after |-> Len(callLog)])
    /\ last' = Ran("debounced.later")
    /\ UNCHANGED <<debounceFrame, now, timeout, callLog>>

\* time passes
Tick ==
    /\ now < MaxNow
    /\ now' = now + 1
    /\ last' = Ran("tick")
    /\ UNCHANGED <<debounceFrame, timers, timeout, callLog, funcLog>>

DebounceNext == ExecutedFunction \/ Later \/ Tick

SpecDebounce == DebounceInit /\ [][DebounceNext]_vars

\* C22: func runs only after a call, with the arguments of the most recent
\* call and no sooner than wait after it, at most once for each most recent
\* call; at most one invocation is pending, and it is the one of the most
\* recent call (every earlier one was cancelled).
C22_DebounceFiresOncePerBurst ==
    /\ \A k \in 1..Len(funcLog) :
          LET f == funcLog[k] IN
          /\ f.after >= 1
          /\ f.args = callLog[f.after].args
          /\ f.at - callLog[f.after].at >= debWait
    /\ \A j, k \in 1..Len(funcLog) : j # k => funcLog[j].after # funcLog[k].after
    /\ Cardinality(timers) <= 1
    /\ \A t \in timers : t.id = Len(callLog) /\ t.args = callLog[t.id].args

\* C22 witness: a second call arrived before the timer of the first was due;
\* func ran once, with the second call's arguments
C22_Witness ==
    /\ last.event = "debounced.later"
    /\ debWait = 2
    /\ Len(callLog) = 2
    /\ callLog[1].args = "e1"
    /\ callLog[2].args = "e2"
    /\ callLog[2].at - callLog[1].at = 1
    /\ funcLog = <<[at |-> callLog[2].at + 2, args |-> "e2", after |-> 2]>>
    /\ timers = {}

=============================================================================
